---- MODULE Spec2Model ----
(***************************************************************************)
(* update_calendar.py: fetch the near-Earth-object feed, clear the Google  *)
(* calendar, turn every qualifying asteroid into a 5-minute event, append  *)
(* it to the local ICS calendar and insert it remotely, then write the     *)
(* ICS file.  The script is one sequential run; pc is its position.        *)
(***************************************************************************)
EXTENDS Integers, Sequences, FiniteSets, TLC

VARIABLES
    pc,             \* position of the run in the script
    nasa,           \* what the feed endpoint answers to the one GET
    token_file,     \* state of token.json on disk
    neo_data,       \* the parsed feed (response.json())
    pages,          \* the pages the calendar service lists (ids of the events)
    remote,         \* ids of the events on the remote calendar
    next_id,        \* the id the service gives the next inserted event
    page_token,     \* delete_all_events: page_token (0 is None)
    events,         \* delete_all_events: the page being walked
    item,           \* delete_all_events: items of that page already walked
    visited,        \* asteroid loop: number of asteroids already visited
    local_calendar, \* components of the in-memory ICS calendar
    file,           \* calendar.ics: <<>> until written, then <<content>>
    exit_code,      \* -1 while running, then the process's exit status
    log             \* history: every external call and sink operation, in order

vars == <<pc, nasa, token_file, neo_data, pages, remote, next_id,
          page_token, events, item, visited, local_calendar, file, exit_code, log>>

----------------------------------------------------------------------------
(* Bounds of the model. *)

MaxEvents == 2
MaxPages == 2
MaxAsteroids == 2

----------------------------------------------------------------------------
(* Python dictionaries: functions whose DOMAIN is the set of keys present. *)

Get(d, k, default) == IF k \in DOMAIN d THEN d[k] ELSE default

Has(d, k) == k \in DOMAIN d

With(d, k, v) == [x \in (DOMAIN d) \cup {k} |-> IF x = k THEN v ELSE d[x]]

Without(d, k) == [x \in (DOMAIN d) \ {k} |-> d[x]]

Range(s) == {s[i] : i \in 1..Len(s)}

\* the element of a singleton: {F(x) : x \in {e}} is F at the value of e,
\* a local variable evaluated once
Only(S) == CHOOSE x \in S : TRUE

----------------------------------------------------------------------------
(* datetime: strptime("%Y-%b-%d %H:%M"), replace(), timedelta addition,    *)
(* isoformat().  A date-time string is a sequence of tokens: a date word   *)
(* [kind "date", year, mon, day], a time word [kind "time", hour, minute], *)
(* a space [kind "sp"] or any other text [kind "junk"].                    *)

MonthAbbr == <<"Jan", "Feb", "Mar", "Apr", "May", "Jun",
               "Jul", "Aug", "Sep", "Oct", "Nov", "Dec">>

IsLeap(y) == (y % 4 = 0) /\ ((y % 100 # 0) \/ (y % 400 = 0))

DaysInMonth(y, m) ==
    IF m = 2 THEN (IF IsLeap(y) THEN 29 ELSE 28)
    ELSE IF m \in {4, 6, 9, 11} THEN 30 ELSE 31

Sp == [kind |-> "sp"]
Junk == [kind |-> "junk"]
DateWord(y, mon, d) == [kind |-> "date", year |-> y, mon |-> mon, day |-> d]
TimeWord(h, m) == [kind |-> "time", hour |-> h, minute |-> m]

\* " " in date_full
HasSpace(date_full) == \E i \in 1..Len(date_full) : date_full[i].kind = "sp"

\* str.split(): the maximal runs of non-space tokens, in order
Split(s) ==
    LET starts == {i \in 1..Len(s) : s[i].kind # "sp" /\ (i = 1 \/ s[i - 1].kind = "sp")}
        ends   == {i \in 1..Len(s) : s[i].kind # "sp" /\ (i = Len(s) \/ s[i + 1].kind = "sp")}
    IN  [k \in 1..Cardinality(starts) |->
            SubSeq(s, CHOOSE i \in starts : Cardinality({j \in starts : j <= i}) = k,
                      CHOOSE i \in ends : Cardinality({j \in ends : j <= i}) = k)]

\* does strptime accept f"{date_part} {time_part}" under "%Y-%b-%d %H:%M"
Parses(date_part, time_part) ==
    /\ Len(date_part) = 1
    /\ Len(time_part) = 1
    /\ date_part[1].kind = "date"
    /\ time_part[1].kind = "time"
    /\ date_part[1].year \in 1..9999
    /\ \E m \in 1..12 : MonthAbbr[m] = date_part[1].mon
    /\ LET m == CHOOSE k \in 1..12 : MonthAbbr[k] = date_part[1].mon
       IN  date_part[1].day \in 1..DaysInMonth(date_part[1].year, m)
    /\ time_part[1].hour \in 0..23
    /\ time_part[1].minute \in 0..59

\* datetime.strptime(...).replace(tzinfo=pytz.utc), for words that parse
Strptime(date_part, time_part) ==
    [year   |-> date_part[1].year,
     month  |-> CHOOSE k \in 1..12 : MonthAbbr[k] = date_part[1].mon,
     day    |-> date_part[1].day,
     hour   |-> time_part[1].hour,
     minute |-> time_part[1].minute,
     second |-> 0,
     tzinfo |-> "UTC"]

\* a variant rounding to the nearest block
RoundedMinuteNearest(dt) == ((dt.minute + 2) \div 5) * 5

\* rounded_minute = (dt.minute // 5) * 5
RoundedMinute(dt) == (dt.minute \div 5) * 5

\* dt.replace(minute=rounded_minute, second=0)
StartTime(dt) == [dt EXCEPT !.minute = RoundedMinute(dt), !.second = 0]

\* the day after year-month-day; year 10000 is past datetime.max
NextDay(dt) ==
    IF dt.day < DaysInMonth(dt.year, dt.month) THEN [dt EXCEPT !.day = dt.day + 1]
    ELSE IF dt.month < 12 THEN [dt EXCEPT !.day = 1, !.month = dt.month + 1]
    ELSE [dt EXCEPT !.day = 1, !.month = 1, !.year = dt.year + 1]

\* dt + timedelta(minutes=n), 0 <= n < 1440, before the range check
AddMinutes(dt, n) ==
    LET total == dt.hour * 60 + dt.minute + n
        t     == [dt EXCEPT !.hour = (total \div 60) % 24, !.minute = total % 60]
    IN  IF total >= 1440 THEN NextDay(t) ELSE t

\* start_time + timedelta(minutes=5) raises OverflowError past year 9999
Overflows(dt, n) == AddMinutes(dt, n).year > 9999

EndTime(start_time) == AddMinutes(start_time, 5)

\* datetime.isoformat() of an aware UTC datetime: "YYYY-MM-DDTHH:MM:SS+00:00"
IsoFormat(dt) ==
    <<dt.year, "-", dt.month, "-", dt.day, "T", dt.hour, ":", dt.minute, ":",
      dt.second, "+00:00">>

----------------------------------------------------------------------------
(* The feed.  neo_data["near_earth_objects"] is a dictionary in the order  *)
(* of the JSON body: a sequence of [date_key, asteroids] with distinct     *)
(* keys.  A date key "YYYY-MM-DD" is the tuple <<YYYY, MM, DD>>: the       *)
(* zero-padded strings compare as the tuples do.                           *)

\* Python's < on two date-key strings
KeyLess(a, b) ==
    \/ a[1] < b[1]
    \/ a[1] = b[1] /\ a[2] < b[2]
    \/ a[1] = b[1] /\ a[2] = b[2] /\ a[3] < b[3]

\* neo_data.get("near_earth_objects", {})
NearEarthObjects(data) == Get(data, "near_earth_objects", <<>>)

\* the keys of the dictionary, in its own order
Keys(neo) == [i \in 1..Len(neo) |-> neo[i].date_key]

\* sorted(keys), the keys of a dictionary being distinct: the k-th is the
\* key with k - 1 keys below it
SortKeys(ks) ==
    [k \in 1..Len(ks) |->
        ks[CHOOSE i \in 1..Len(ks) :
              Cardinality({j \in 1..Len(ks) : KeyLess(ks[j], ks[i])}) = k - 1]]

\* a variant walking the dictionary in its own order
LoopKeysUnsorted(data) == Keys(NearEarthObjects(data))

\* for date_key in sorted(neo_data.get("near_earth_objects", {}))
LoopKeys(data) == SortKeys(Keys(NearEarthObjects(data)))

\* neo_data["near_earth_objects"][date_key]
AsteroidsOn(data, date_key) ==
    LET neo == NearEarthObjects(data)
        i   == CHOOSE k \in 1..Len(neo) : neo[k].date_key = date_key
    IN  neo[i].asteroids

\* the asteroids the two nested loops visit, in order: <<date_key, index>>
RECURSIVE VisitsOf(_, _)
VisitsOf(data, ks) ==
    IF ks = <<>> THEN <<>>
    ELSE [i \in 1..Len(AsteroidsOn(data, Head(ks))) |-> <<Head(ks), i>>]
         \o VisitsOf(data, Tail(ks))

LoopOrder(data) == VisitsOf(data, LoopKeys(data))

AsteroidAt(data, id) == AsteroidsOn(data, id[1])[id[2]]

----------------------------------------------------------------------------
(* One iteration of the asteroid loop (the body of the try).               *)

\* float(x)
IsFloat(x) == x # "n/a"

\* lines 118-125 raise KeyError or ValueError
ExtractFails(asteroid, approach) ==
    \/ ~Has(asteroid, "estimated_diameter")
    \/ ~IsFloat(asteroid["estimated_diameter"].kilometers.estimated_diameter_min)
    \/ ~IsFloat(asteroid["estimated_diameter"].kilometers.estimated_diameter_max)
    \/ ~Has(asteroid, "is_potentially_hazardous_asteroid")
    \/ ~Has(approach, "relative_velocity")
    \/ ~IsFloat(approach["relative_velocity"].kilometers_per_second)
    \/ ~Has(approach, "miss_distance")
    \/ ~IsFloat(approach["miss_distance"].kilometers)
    \/ ~Has(approach, "orbiting_body")

\* the description: the values the template embeds, then the optional URL line
Description(asteroid, approach) ==
    <<IF asteroid["is_potentially_hazardous_asteroid"]
         THEN "This asteroid **IS** hazardous."
         ELSE "This asteroid is **NOT** hazardous.",
      asteroid["estimated_diameter"].kilometers.estimated_diameter_min,
      asteroid["estimated_diameter"].kilometers.estimated_diameter_max,
      approach["relative_velocity"].kilometers_per_second,
      approach["miss_distance"].kilometers,
      Get(asteroid, "absolute_magnitude_h", "N/A"),
      approach["orbiting_body"],
      "This asteroid poses no risk during this pass.">>
    \o (IF Get(asteroid, "nasa_jpl_url", "") # ""
           THEN <<"More Info: ", asteroid["nasa_jpl_url"]>> ELSE <<>>)

\* approach_info = asteroid.get("close_approach_data", [])
ApproachInfo(asteroid) == Get(asteroid, "close_approach_data", <<>>)

\* date_full = approach_info[0].get("close_approach_date_full", "")
DateFull(asteroid) == Get(ApproachInfo(asteroid)[1], "close_approach_date_full", <<>>)

\* the two continue statements (lines 101-106); evaluated left to right,
\* so a missing is_sentry_object is read only when there is approach data
SkipsNoApproach(asteroid) == ApproachInfo(asteroid) = <<>>
SentryRaises(asteroid) == ~SkipsNoApproach(asteroid) /\ ~Has(asteroid, "is_sentry_object")
SkipsIfSentry(asteroid) ==
    /\ ~SkipsNoApproach(asteroid)
    /\ Has(asteroid, "is_sentry_object")
    /\ asteroid["is_sentry_object"]
SkipsNotSentry(asteroid) ==
    /\ ~SkipsNoApproach(asteroid)
    /\ Has(asteroid, "is_sentry_object")
    /\ ~asteroid["is_sentry_object"]
SkipsNoTime(asteroid) == ~HasSpace(DateFull(asteroid))

\* lines 113-152, with dt parsed
TransformAt(asteroid, dt, start_time) ==
    IF Overflows(start_time, 5) THEN [result |-> "error"]
    ELSE IF ExtractFails(asteroid, ApproachInfo(asteroid)[1]) THEN [result |-> "error"]
    ELSE [result      |-> "event",
          dt          |-> dt,
          start_time  |-> start_time,
          end_time    |-> EndTime(start_time),
          description |-> Description(asteroid, ApproachInfo(asteroid)[1])]

\* lines 109-152, with date_full split: the unpacking needs two parts
TransformParts(asteroid, parts) ==
    IF Len(parts) # 2 THEN [result |-> "error"]
    ELSE IF ~Parses(parts[1], parts[2]) THEN [result |-> "error"]
    ELSE Only({TransformAt(asteroid, dt, start_time) :
                  <<dt, start_time>> \in
                      {<<x, StartTime(x)>> : x \in {Strptime(parts[1], parts[2])}}})

\* lines 100-152: "skip" (continue), "error" (an exception reaches the
\* except clause) or "event" with the title-less event
Transform(asteroid) ==
    IF SkipsNoApproach(asteroid) THEN [result |-> "skip"]
    ELSE IF SentryRaises(asteroid) THEN [result |-> "error"]
    ELSE IF SkipsNotSentry(asteroid) THEN [result |-> "skip"]
    ELSE IF SkipsNoTime(asteroid) THEN [result |-> "skip"]
    ELSE Only({TransformParts(asteroid, parts) : parts \in {Split(DateFull(asteroid))}})

\* lines 155-159: ics_event; asteroid["name"] raises KeyError when absent
IcsEventFails(asteroid) == ~Has(asteroid, "name")

IcsEvent(asteroid, t) ==
    [summary     |-> asteroid["name"],
     dtstart     |-> t.start_time,
     dtend       |-> t.end_time,
     description |-> t.description]

\* a variant whose end repeats the start
GcalEventEndIsStart(asteroid, t) ==
    [summary     |-> asteroid["name"],
     description |-> t.description,
     start       |-> [dateTime |-> IsoFormat(t.start_time), timeZone |-> "UTC"],
     end         |-> [dateTime |-> IsoFormat(t.start_time), timeZone |-> "UTC"]]

\* lines 163-174: gcal_event
GcalEvent(asteroid, t) ==
    [summary     |-> asteroid["name"],
     description |-> t.description,
     start       |-> [dateTime |-> IsoFormat(t.start_time), timeZone |-> "UTC"],
     end         |-> [dateTime |-> IsoFormat(t.end_time), timeZone |-> "UTC"]]

----------------------------------------------------------------------------
(* The inputs: asteroid records, feeds, feed responses, listed pages.      *)

Approach(date_full) ==
    [close_approach_date_full |-> date_full,
     relative_velocity        |-> [kilometers_per_second |-> "10"],
     miss_distance            |-> [kilometers |-> "1000000"],
     orbiting_body            |-> "Earth"]

Diameter(min) ==
    [kilometers |-> [estimated_diameter_min |-> min, estimated_diameter_max |-> "0.7"]]

\* a sentry object approaching on 2024-Jan-05 13:47
Qualifying ==
    [name                              |-> "A",
     is_sentry_object                  |-> TRUE,
     is_potentially_hazardous_asteroid |-> FALSE,
     close_approach_data               |-> <<Approach(<<DateWord(2024, "Jan", 5), Sp, TimeWord(13, 47)>>)>>,
     estimated_diameter                |-> Diameter("0.3"),
     absolute_magnitude_h              |-> "21.5"]

WithDate(date_full) == [Qualifying EXCEPT !.close_approach_data = <<Approach(date_full)>>]

\* hazardous, with a URL, two approaches, and a time in the last minutes of a year
Hazardous ==
    With([Qualifying EXCEPT
            !.name = "B",
            !.is_potentially_hazardous_asteroid = TRUE,
            !.close_approach_data =
                <<Approach(<<DateWord(2024, "Dec", 31), Sp, Sp, TimeWord(23, 57)>>),
                  Approach(<<DateWord(2025, "Mar", 1)>>)>>],
         "nasa_jpl_url", "https://ssd.jpl.nasa.gov/B")

NotSentry == [Qualifying EXCEPT !.is_sentry_object = FALSE]
NoApproach == [Qualifying EXCEPT !.close_approach_data = <<>>]
NoApproachKey == Without(NotSentry, "close_approach_data")
NoSentryKey == Without(Qualifying, "is_sentry_object")
NoTime == WithDate(<<DateWord(2024, "Jan", 5)>>)
NoDateFull ==
    [Qualifying EXCEPT !.close_approach_data =
        <<Without(Approach(<<>>), "close_approach_date_full")>>]
TrailingSpace == WithDate(<<DateWord(2024, "Jan", 5), Sp>>)
BadDay == WithDate(<<DateWord(2023, "Feb", 29), Sp, TimeWord(0, 0)>>)
LastMinutes == WithDate(<<DateWord(9999, "Dec", 31), Sp, TimeWord(23, 58)>>)
BadDiameter == [Qualifying EXCEPT !.estimated_diameter = Diameter("n/a")]
NoName == Without(Qualifying, "name")

\* the asteroid records of the loop-centred specification
Asteroids ==
    {Qualifying, Hazardous, NotSentry, NoApproach, NoApproachKey, NoSentryKey,
     NoTime, NoDateFull, TrailingSpace, BadDay, LastMinutes, BadDiameter, NoName}

\* the asteroid records of the reset-centred specification
FewAsteroids == {Qualifying, NotSentry, NoName}

\* the asteroid records of the specification with fairness
FairAsteroids == {Qualifying, NotSentry, NoName, BadDay}

DateKeys == {<<2024, 1, 14>>, <<2024, 2, 1>>}

\* the ways to cut 1..n into k consecutive runs: c[i] is the end of run i
Cuts(n, k) ==
    {c \in [0..k -> 0..n] : c[0] = 0 /\ c[k] = n /\ \A i \in 1..k : c[i - 1] <= c[i]}

KeySeqs ==
    {ks \in UNION {[1..n -> DateKeys] : n \in 0..Cardinality(DateKeys)} :
        \A i, j \in 1..Len(ks) : i # j => ks[i] # ks[j]}

\* the feeds of at most MaxAsteroids asteroids drawn from cat
Feeds(cat) ==
    {[i \in 1..Len(ks) |->
        [date_key  |-> ks[i],
         asteroids |-> SubSeq(fl, c[i - 1] + 1, c[i])]] :
     <<ks, fl, c>> \in
        {x \in KeySeqs \X (UNION {[1..n -> cat] : n \in 0..MaxAsteroids})
                 \X (UNION {Cuts(n, k) : n \in 0..MaxAsteroids, k \in 0..Cardinality(DateKeys)}) :
            /\ DOMAIN x[3] = 0..Len(x[1])
            /\ x[3][Len(x[1])] = Len(x[2])}}

\* what the endpoint can answer: three failures, a body without the key, a feed
Responses(cat) ==
    {[status |-> "transport_error"],
     [status |-> "http_error", body |-> [error |-> "API_KEY_INVALID"]],
     [status |-> "bad_json"],
     [status |-> "ok", body |-> [element_count |-> 0]]}
    \cup {[status |-> "ok", body |-> [near_earth_objects |-> f]] : f \in Feeds(cat)}

\* the page chains of the events 1..n, n <= maxEvents, over at most maxPages pages
PageChains(maxEvents, maxPages) ==
    {[i \in 1..k |-> [j \in 1..(c[i] - c[i - 1]) |-> c[i - 1] + j]] :
     <<k, c>> \in
        {x \in (1..maxPages) \X (UNION {Cuts(n, k) : n \in 0..maxEvents, k \in 1..maxPages}) :
            DOMAIN x[2] = 0..x[1]}}

RECURSIVE Flatten(_)
Flatten(ss) == IF ss = <<>> THEN <<>> ELSE Head(ss) \o Flatten(Tail(ss))

TokenStates == {"absent", "valid", "expired"}

----------------------------------------------------------------------------
(* The run.                                                                *)

InitWith(responses, chains) ==
    /\ pc = "start"
    /\ nasa \in responses
    /\ token_file \in TokenStates
    /\ neo_data = <<>>
    /\ pages \in chains
    /\ remote = Range(Flatten(pages))
    /\ next_id = Len(Flatten(pages)) + 1
    /\ page_token = 0
    /\ events = <<>>
    /\ item = 0
    /\ visited = 0
    /\ local_calendar = <<>>
    /\ file = <<>>
    /\ exit_code = -1
    /\ log = <<>>

Init == InitWith(Responses(FewAsteroids), PageChains(MaxEvents, MaxPages))

InitLoop == InitWith(Responses(Asteroids), {<<<<1>>>>})

InitFair == InitWith(Responses(FairAsteroids), {<<<<1>>>>})

\* lines 14-22: the two required environment variables
CheckConfig ==
    /\ pc = "start"
    /\ \E api_key, calendar_id \in BOOLEAN :
          IF api_key /\ calendar_id
             THEN pc' = "fetch" /\ exit_code' = exit_code
             ELSE pc' = "crashed" /\ exit_code' = 1
    /\ UNCHANGED <<nasa, token_file, neo_data, pages, remote, next_id, page_token,
                   events, item, visited, local_calendar, file, log>>

\* a variant without raise_for_status()
FetchRaisesNoStatusCheck(response) == response.status \in {"transport_error", "bad_json"}

\* lines 81-83: requests.get, raise_for_status or response.json() raises
FetchRaises(response) == response.status \in {"transport_error", "http_error", "bad_json"}

\* lines 80-86: one GET; any exception prints and exits with status 1
Fetch ==
    /\ pc = "fetch"
    /\ log' = Append(log, [op |-> "fetch"])
    /\ IF FetchRaises(nasa)
          THEN neo_data' = neo_data /\ pc' = "exited" /\ exit_code' = 1
          ELSE neo_data' = nasa.body /\ pc' = "auth" /\ exit_code' = exit_code
    /\ UNCHANGED <<nasa, token_file, pages, remote, next_id, page_token,
                   events, item, visited, local_calendar, file>>

\* get_google_calendar_service (lines 40-61): "ok", or "raise" when the
\* refresh, the missing credentials.json or the authorization flow raises
AuthResult(token, credentials_file, call_ok) ==
    IF token = "valid" THEN "ok"
    ELSE IF token = "expired" THEN (IF call_ok THEN "ok" ELSE "raise")
    ELSE IF ~credentials_file THEN "raise"
    ELSE IF call_ok THEN "ok" ELSE "raise"

\* line 89, and the entry of delete_all_events (lines 93 and 66)
Authenticate ==
    /\ pc = "auth"
    /\ log' = Append(log, [op |-> "auth"])
    /\ \E credentials_file, call_ok \in BOOLEAN :
          IF AuthResult(token_file, credentials_file, call_ok) = "ok"
             THEN pc' = "list" /\ token_file' = "valid" /\ exit_code' = exit_code
             ELSE pc' = "crashed" /\ token_file' = token_file /\ exit_code' = 1
    /\ page_token' = 0
    /\ UNCHANGED <<nasa, neo_data, pages, remote, next_id,
                   events, item, visited, local_calendar, file>>

\* service.events().list(pageToken=...).execute(): the page the token names
ListResponse(token) ==
    LET p     == IF token = 0 THEN 1 ELSE token
        first == IF pages[p] = <<>> THEN [kind |-> "calendar#events"]
                 ELSE [kind |-> "calendar#events", items |-> pages[p]]
    IN  IF p < Len(pages) THEN With(first, "nextPageToken", p + 1) ELSE first

\* a variant that also stops at a page without items
AfterPageStopOnEmpty(ev) ==
    IF Get(ev, "nextPageToken", 0) = 0 \/ Get(ev, "items", <<>>) = <<>> THEN "loop" ELSE "list"

\* lines 75-77: where the run is after the items of page ev
AfterPage(ev) == IF Get(ev, "nextPageToken", 0) = 0 THEN "loop" ELSE "list"

\* line 68, and lines 75-77 when the page has no item
ListPage ==
    /\ pc = "list"
    /\ \E ok \in BOOLEAN :
          IF ok
             THEN LET ev == ListResponse(page_token) IN
                  /\ log' = Append(log, [op |-> "list", pageToken |-> page_token,
                                         ok |-> TRUE, response |-> ev])
                  /\ events' = ev
                  /\ item' = 0
                  /\ IF Get(ev, "items", <<>>) = <<>>
                        THEN /\ page_token' = Get(ev, "nextPageToken", 0)
                             /\ pc' = AfterPage(ev)
                        ELSE /\ page_token' = page_token
                             /\ pc' = "delete"
                  /\ exit_code' = exit_code
             ELSE /\ log' = Append(log, [op |-> "list", pageToken |-> page_token,
                                         ok |-> FALSE])
                  /\ pc' = "crashed"
                  /\ exit_code' = 1
                  /\ UNCHANGED <<events, item, page_token>>
    /\ UNCHANGED <<nasa, token_file, neo_data, pages, remote, next_id,
                   visited, local_calendar, file>>

\* a variant with the token test inside the for loop
AfterItemTokenInside(ev, n) == AfterPage(ev)

\* lines 69-77: where the run is after n items of page ev
AfterItem(ev, n) == IF n < Len(ev["items"]) THEN "delete" ELSE AfterPage(ev)

\* the state of the calendar after a delete call
AfterDelete(cal, id, ok) == IF ok THEN cal \ {id} ELSE cal

\* lines 69-74 for one item, and lines 75-77 after the last item
DeleteEvent ==
    /\ pc = "delete"
    /\ LET id == events["items"][item + 1] IN
       \E ok \in BOOLEAN :
          /\ log' = Append(log, [op |-> "delete", eventId |-> id, ok |-> ok])
          /\ remote' = AfterDelete(remote, id, ok)
    /\ item' = item + 1
    /\ pc' = AfterItem(events, item + 1)
    /\ page_token' = IF AfterItem(events, item + 1) = "delete" THEN page_token
                     ELSE Get(events, "nextPageToken", 0)
    /\ UNCHANGED <<nasa, token_file, neo_data, pages, next_id, events,
                   visited, local_calendar, file, exit_code>>

\* the sink operations of one iteration (lines 155-178) for asteroid id with
\* transform t: the log entries, given the outcome of the remote insert
SinkLog(id, asteroid, t, ok) ==
    IF IcsEventFails(asteroid)
       THEN <<[op |-> "append", ast |-> id, ok |-> FALSE]>>
       ELSE <<[op |-> "append", ast |-> id, ok |-> TRUE,
               component |-> IcsEvent(asteroid, t)],
              [op |-> "insert", ast |-> id, ok |-> ok,
               body |-> GcalEvent(asteroid, t)]>>

\* lines 97-183: one asteroid
VisitAsteroid ==
    /\ pc = "loop"
    /\ visited < Len(LoopOrder(neo_data))
    /\ \E id \in {LoopOrder(neo_data)[visited + 1]} :
       \E asteroid \in {AsteroidAt(neo_data, id)} :
       \E t \in {Transform(asteroid)} :
          IF t.result # "event"
             THEN /\ log' = Append(log, [op |-> "visit", ast |-> id, result |-> t.result])
                  /\ UNCHANGED <<local_calendar, remote, next_id>>
             ELSE \E ok \in BOOLEAN :
                  /\ log' = Append(log, [op |-> "visit", ast |-> id, result |-> t.result])
                               \o SinkLog(id, asteroid, t, ok)
                  /\ local_calendar' =
                        IF IcsEventFails(asteroid) THEN local_calendar
                        ELSE Append(local_calendar, IcsEvent(asteroid, t))
                  /\ IF ~IcsEventFails(asteroid) /\ ok
                        THEN remote' = remote \cup {next_id} /\ next_id' = next_id + 1
                        ELSE UNCHANGED <<remote, next_id>>
    /\ visited' = visited + 1
    /\ UNCHANGED <<pc, nasa, token_file, neo_data, pages, page_token,
                   events, item, file, exit_code>>

\* local_calendar.to_ical()
ToIcal(cal) ==
    [prodid     |-> "-//Near Earth Asteroid Tracker//example.com//",
     version    |-> "2.0",
     components |-> cal]

\* a variant with the write inside the loop
LoopDoneAfterOne(data, n) == n = Len(LoopOrder(data)) \/ n = 1

\* the two for loops are exhausted after n asteroids
LoopDone(data, n) == n = Len(LoopOrder(data))

\* lines 186-188, after the last asteroid
WriteFile ==
    /\ pc = "loop"
    /\ LoopDone(neo_data, visited)
    /\ file' = <<ToIcal(local_calendar)>>
    /\ log' = Append(log, [op |-> "write", content |-> ToIcal(local_calendar)])
    /\ pc' = "done"
    /\ exit_code' = 0
    /\ UNCHANGED <<nasa, token_file, neo_data, pages, remote, next_id, page_token,
                   events, item, visited, local_calendar>>

Next ==
    \/ CheckConfig
    \/ Fetch
    \/ Authenticate
    \/ ListPage
    \/ DeleteEvent
    \/ VisitAsteroid
    \/ WriteFile

Spec == Init /\ [][Next]_vars

SpecLoop == InitLoop /\ [][Next]_vars

\* the run is sequential and every call returns or raises: a step that can
\* be taken is taken
FairSpec == InitFair /\ [][Next]_vars /\ WF_vars(Next)

----------------------------------------------------------------------------
(* The asteroid loop alone, over a grid of approach times: the run stands  *)
(* at the loop after a successful fetch, authentication and an empty       *)
(* one-page reset, with a feed of one qualifying asteroid.                 *)

GridDates ==
    {DateWord(y, mon, d) : y \in {2023, 2024, 9999}, mon \in {"Jan", "Feb", "Dec"},
                           d \in {5, 28, 29, 31}}

GridTimes == {TimeWord(h, m) : h \in 0..23, m \in 0..59}

GridFeeds ==
    {[near_earth_objects |->
        <<[date_key |-> <<2024, 1, 14>>, asteroids |-> <<WithDate(<<d, Sp, t>>)>>]>>] :
     d \in GridDates, t \in GridTimes}

InitTime ==
    /\ pc = "loop"
    /\ neo_data \in GridFeeds
    /\ nasa = [status |-> "ok", body |-> neo_data]
    /\ token_file = "valid"
    /\ pages = <<<<>>>>
    /\ remote = {}
    /\ next_id = 1
    /\ page_token = 0
    /\ events = [kind |-> "calendar#events"]
    /\ item = 0
    /\ visited = 0
    /\ local_calendar = <<>>
    /\ file = <<>>
    /\ exit_code = -1
    /\ log = <<[op |-> "fetch"], [op |-> "auth"],
               [op |-> "list", pageToken |-> 0, ok |-> TRUE,
                response |-> [kind |-> "calendar#events"]]>>

NextTime == VisitAsteroid \/ WriteFile

SpecTime == InitTime /\ [][NextTime]_vars

----------------------------------------------------------------------------
(* Reading the history.                                                    *)

LogAt(op) == {i \in 1..Len(log) : log[i].op = op}

ListCalls == {i \in LogAt("list") : log[i].ok}

ItemsOf(i) == Range(Get(log[i].response, "items", <<>>))

DeletesOf(id) == {i \in LogAt("delete") : log[i].eventId = id}

StaleEvents == Range(Flatten(pages))

AfterReset == pc \in {"loop", "done"}

----------------------------------------------------------------------------
(* C1: every delete of the reset comes before the first insert: no insert  *)
(* is followed by a list or delete call, and when an insert is issued      *)
(* every event of every listed page has had its delete request.            *)
C1_DeletesBeforeInserts ==
    \A j \in LogAt("insert") :
        /\ \A i \in LogAt("list") \cup LogAt("delete") : i < j
        /\ \A i \in ListCalls : \A id \in ItemsOf(i) :
              \E k \in DeletesOf(id) : k < j

C1_Witness ==
    \E i \in LogAt("delete") : \E j \in LogAt("insert") :
        /\ i < j
        /\ Cardinality(ListCalls) = 2
        /\ Cardinality(LogAt("delete")) = 2

(* C2: when the run is past the reset, no event that was on the remote     *)
(* calendar before the run is still on it, whatever the delete calls did.  *)
C2_NoStaleEventSurvives == AfterReset => remote \cap StaleEvents = {}

(* C7: once the feed fetch has failed the run has exited with status 1     *)
(* after that single fetch: no other call was made, the file is not        *)
(* written and the remote calendar is as it was.                           *)
C7_FetchFailureAborts ==
    (LogAt("fetch") # {} /\ nasa.status # "ok") =>
        /\ pc = "exited"
        /\ exit_code = 1
        /\ log = <<[op |-> "fetch"]>>
        /\ file = <<>>
        /\ local_calendar = <<>>
        /\ remote = StaleEvents

C7_Witness ==
    /\ pc = "exited"
    /\ nasa.status = "http_error"
    /\ remote # {}

(* C9: the page loop of delete_all_events: the first list call carries no  *)
(* token and each later one the token of the page before; every item of a  *)
(* listed page gets one delete attempt, failed or not, and never two; the  *)
(* loop is left exactly when the last listed page has no token and its     *)
(* items are walked, after at most one list call per page of the chain.    *)
C9_PageLoop ==
    /\ \A i \in ListCalls :
          IF \E h \in ListCalls : h < i
             THEN LET h == CHOOSE h \in ListCalls :
                               h < i /\ \A g \in ListCalls : g < i => g <= h
                  IN  /\ Has(log[h].response, "nextPageToken")
                      /\ log[i].pageToken = log[h].response["nextPageToken"]
                      /\ \A id \in ItemsOf(h) : \E k \in DeletesOf(id) : h < k /\ k < i
             ELSE log[i].pageToken = 0
    /\ Cardinality(LogAt("list")) <= Len(pages)
    /\ Cardinality(LogAt("delete")) <= Cardinality(StaleEvents)
    /\ \A i \in LogAt("delete") :
          /\ Cardinality(DeletesOf(log[i].eventId)) = 1
          /\ \E h \in ListCalls : h < i /\ log[i].eventId \in ItemsOf(h)
    /\ AfterReset =>
          /\ \A id \in StaleEvents : Cardinality(DeletesOf(id)) = 1
          /\ Cardinality(ListCalls) = Len(pages)
          /\ \E h \in ListCalls :
                /\ \A g \in ListCalls : g <= h
                /\ ~Has(log[h].response, "nextPageToken")
    /\ pc \in {"list", "delete"} =>
          \/ ListCalls = {}
          \/ \E h \in ListCalls :
                /\ \A g \in ListCalls : g <= h
                /\ \/ Has(log[h].response, "nextPageToken")
                   \/ \E id \in ItemsOf(h) : DeletesOf(id) = {}

C9_Witness ==
    /\ AfterReset
    /\ Cardinality(ListCalls) = 2
    /\ ItemsOf(CHOOSE h \in ListCalls : \A g \in ListCalls : h <= g) = {}
    /\ \E i, j \in LogAt("delete") : i < j /\ ~log[i].ok

----------------------------------------------------------------------------
(* Reading the asteroid loop's history.                                    *)

AsteroidOf(i) == AsteroidAt(neo_data, log[i].ast)

Appended == {i \in LogAt("append") : log[i].ok}

\* the components appended so far, in order
AppendedComponents ==
    [k \in 1..Cardinality(Appended) |->
        log[CHOOSE i \in Appended : Cardinality({j \in Appended : j <= i}) = k].component]

\* the local calendar holds the appended components and nothing else
LocalIsAppended == local_calendar = AppendedComponents

AllAsteroids ==
    {<<NearEarthObjects(neo_data)[d].date_key, k>> :
        <<d, k>> \in {x \in (1..Len(NearEarthObjects(neo_data))) \X (1..MaxAsteroids + 1) :
                         x[2] <= Len(NearEarthObjects(neo_data)[x[1]].asteroids)}}

\* the reading of an isoformat() string
FromIso(s) ==
    [year |-> s[1], month |-> s[3], day |-> s[5], hour |-> s[7], minute |-> s[9],
     second |-> s[11], tzinfo |-> IF s[12] = "+00:00" THEN "UTC" ELSE "other"]

\* proleptic Gregorian ordinal of a date, and the minute of its day
DaysBeforeMonth == <<0, 31, 59, 90, 120, 151, 181, 212, 243, 273, 304, 334>>

Ordinal(dt) ==
    LET y == dt.year - 1 IN
    y * 365 + (y \div 4) - (y \div 100) + (y \div 400)
    + DaysBeforeMonth[dt.month]
    + (IF dt.month > 2 /\ (dt.year % 4 = 0) /\ (dt.year % 100 # 0 \/ dt.year % 400 = 0)
          THEN 1 ELSE 0)
    + dt.day

MinuteOfDay(dt) == dt.hour * 60 + dt.minute

\* b is exactly n minutes after a (n < 1440)
MinutesApart(a, b, n) ==
    IF MinuteOfDay(a) + n < 1440
       THEN Ordinal(b) = Ordinal(a) /\ MinuteOfDay(b) = MinuteOfDay(a) + n
       ELSE Ordinal(b) = Ordinal(a) + 1 /\ MinuteOfDay(b) = MinuteOfDay(a) + n - 1440

NotAfter(a, b) ==
    Ordinal(a) < Ordinal(b) \/ (Ordinal(a) = Ordinal(b) /\ MinuteOfDay(a) <= MinuteOfDay(b))

IsDateTime(dt) ==
    /\ dt.year \in 1..9999
    /\ dt.month \in 1..12
    /\ dt.day >= 1
    /\ dt.day <= (IF dt.month = 12 THEN 31
                  ELSE Ordinal([dt EXCEPT !.month = dt.month + 1, !.day = 1])
                       - Ordinal([dt EXCEPT !.day = 1]))
    /\ dt.hour \in 0..23
    /\ dt.minute \in 0..59
    /\ dt.second = 0
    /\ dt.tzinfo = "UTC"

\* the approach time the first approach entry of asteroid a states
ApproachTime(a) ==
    LET df == a["close_approach_data"][1]["close_approach_date_full"]
        d  == CHOOSE tok \in Range(df) : tok.kind = "date"
        t  == CHOOSE tok \in Range(df) : tok.kind = "time"
    IN  [year |-> d.year,
         month |-> CHOOSE m \in 1..12 : MonthAbbr[m] = d.mon,
         day |-> d.day, hour |-> t.hour, minute |-> t.minute,
         second |-> 0, tzinfo |-> "UTC"]

\* the three conditions of C3, read off the asteroid record
C3_NoData(a) ==
    IF Has(a, "close_approach_data") THEN Len(a["close_approach_data"]) = 0 ELSE TRUE

C3_NotSentry(a) ==
    IF Has(a, "is_sentry_object") THEN a["is_sentry_object"] = FALSE ELSE FALSE

C3_NoTime(a) ==
    IF C3_NoData(a) THEN FALSE
    ELSE IF Has(a["close_approach_data"][1], "close_approach_date_full")
         THEN \A tok \in Range(a["close_approach_data"][1]["close_approach_date_full"]) :
                 tok.kind # "sp"
         ELSE TRUE

(* C3: an asteroid with no close-approach entry, or not flagged as a       *)
(* sentry object, or whose first approach has a date-time string without   *)
(* a space, gets no component in the local calendar and no remote insert.  *)
C3_SkippedProduceNothing ==
    /\ LocalIsAppended
    /\ Cardinality(remote \ StaleEvents) <= Cardinality(LogAt("insert"))
    /\ \A i \in LogAt("visit") :
          (C3_NoData(AsteroidOf(i)) \/ C3_NotSentry(AsteroidOf(i)) \/ C3_NoTime(AsteroidOf(i)))
          => \A j \in LogAt("append") \cup LogAt("insert") : log[j].ast # log[i].ast

C3_Witness ==
    /\ pc = "done"
    /\ \E i, j \in LogAt("visit") :
          /\ i < j
          /\ C3_NotSentry(AsteroidOf(i))
          /\ ~C3_NoData(AsteroidOf(i))
          /\ ~C3_NoTime(AsteroidOf(i))
          /\ C3_NoTime(AsteroidOf(j))
          /\ ~C3_NotSentry(AsteroidOf(j))

(* C4: the start of an event is the approach time with the minute floored  *)
(* to a multiple of 5 and second 0, on the same date and hour; the end is  *)
(* a valid time exactly 5 minutes after the start; start <= approach time  *)
(* < end; 2024-Jan-05 13:47 gives 13:45 to 13:50 of 2024-01-05.            *)
C4_FiveMinuteBlock ==
    \A i \in Appended :
        LET dt    == ApproachTime(AsteroidOf(i))
            start == log[i].component.dtstart
            end   == log[i].component.dtend
        IN  /\ start = [dt EXCEPT !.minute = 5 * (dt.minute \div 5)]
            /\ IsDateTime(end)
            /\ MinutesApart(start, end, 5)
            /\ NotAfter(start, dt)
            /\ NotAfter(dt, end) /\ dt # end
            /\ (dt.year = 2024 /\ dt.month = 1 /\ dt.day = 5 /\ dt.hour = 13 /\ dt.minute = 47)
               => /\ start = [year |-> 2024, month |-> 1, day |-> 5, hour |-> 13,
                              minute |-> 45, second |-> 0, tzinfo |-> "UTC"]
                  /\ end = [year |-> 2024, month |-> 1, day |-> 5, hour |-> 13,
                            minute |-> 50, second |-> 0, tzinfo |-> "UTC"]

C4_Witness ==
    \E i \in Appended :
        /\ ApproachTime(AsteroidOf(i)).minute = 58
        /\ log[i].component.dtstart.minute = 55
        /\ log[i].component.dtstart.day = 29
        /\ log[i].component.dtstart.month = 2
        /\ log[i].component.dtend.day = 1
        /\ log[i].component.dtend.month = 3
        /\ log[i].component.dtend.hour = 0

(* C5: every component appended to the local calendar has a remote insert  *)
(* attempt for the same asteroid with the same title, start, end and       *)
(* description, whether or not the attempt succeeded.                      *)
C5_AppendedIsInserted ==
    /\ LocalIsAppended
    /\ \A i \in Appended :
          \E j \in LogAt("insert") :
             /\ i < j
             /\ log[j].ast = log[i].ast
             /\ log[j].body.summary = log[i].component.summary
             /\ log[j].body.summary = AsteroidOf(i)["name"]
             /\ log[j].body.description = log[i].component.description
             /\ FromIso(log[j].body.start.dateTime) = log[i].component.dtstart
             /\ FromIso(log[j].body.end.dateTime) = log[i].component.dtend
             /\ log[j].body.start.timeZone = "UTC"
             /\ log[j].body.end.timeZone = "UTC"

C5_Witness ==
    /\ pc = "done"
    /\ Len(local_calendar) = 2
    /\ \E j \in LogAt("insert") : ~log[j].ok
    /\ \E j \in LogAt("insert") : log[j].ok

(* C6: the two sinks are independent: a failed remote insert leaves the    *)
(* event in the local calendar, and a failed local append still has the    *)
(* remote insert of that event attempted.                                  *)
C6_SinksIndependent ==
    /\ \A j \in LogAt("insert") :
          ~log[j].ok => \E i \in Appended :
                           /\ log[i].ast = log[j].ast
                           /\ log[i].component \in Range(local_calendar)
    /\ \A i \in LogAt("append") :
          ~log[i].ok => \E j \in LogAt("insert") : log[j].ast = log[i].ast

\* the file is written at most once, by the last step, with what was appended
C8_WrittenOnceAtEnd ==
    /\ Cardinality(LogAt("write")) <= 1
    /\ pc # "done" => (file = <<>> /\ LogAt("write") = {})
    /\ pc = "done" =>
          /\ exit_code = 0
          /\ LogAt("write") = {Len(log)}
          /\ {log[i].ast : i \in LogAt("visit")} = AllAsteroids
          /\ file = <<[prodid     |-> "-//Near Earth Asteroid Tracker//example.com//",
                       version    |-> "2.0",
                       components |-> AppendedComponents]>>

(* C8: once fetch, authentication and reset are through, the run reaches   *)
(* its end; the file is written at most once, only by the step that ends   *)
(* the run, after every asteroid of the feed was visited, and it holds the *)
(* components appended during the run and nothing else.                    *)
C8_FileWrittenOnce == ((pc = "loop") ~> (pc = "done")) /\ [](C8_WrittenOnceAtEnd)

C8_Witness ==
    /\ pc = "done"
    /\ \E i \in LogAt("visit") : log[i].result = "skip"
    /\ \E i \in LogAt("visit") : log[i].result = "error"
    /\ local_calendar = <<>>

\* asteroid a comes before b: an earlier date key, or the same and an earlier place
C10_Before(a, b) == KeyLess(a[1], b[1]) \/ (a[1] = b[1] /\ a[2] < b[2])

(* C10: the asteroids are visited in ascending order of date key, and in   *)
(* feed order within a date, each once; at the end every asteroid of the   *)
(* feed was visited, errors included; no asteroid has two local appends    *)
(* or two remote inserts.                                                  *)
C10_EachOnceInOrder ==
    /\ \A i, j \in LogAt("visit") : i < j => C10_Before(log[i].ast, log[j].ast)
    /\ \A i \in LogAt("visit") :
          \A a \in AllAsteroids :
             C10_Before(a, log[i].ast) => \E h \in LogAt("visit") : h < i /\ log[h].ast = a
    /\ \A i, j \in LogAt("append") : log[i].ast = log[j].ast => i = j
    /\ \A i, j \in LogAt("insert") : log[i].ast = log[j].ast => i = j
    /\ \A i \in LogAt("append") \cup LogAt("insert") :
          \E h \in LogAt("visit") : h < i /\ log[h].ast = log[i].ast
    /\ (LogAt("visit") # {} /\ pc # "done") => pc = "loop"
    /\ pc = "done" => {log[i].ast : i \in LogAt("visit")} = AllAsteroids

C10_Witness ==
    /\ pc = "done"
    /\ Len(NearEarthObjects(neo_data)) = 2
    /\ KeyLess(NearEarthObjects(neo_data)[2].date_key, NearEarthObjects(neo_data)[1].date_key)
    /\ \E i, j \in LogAt("visit") :
          /\ i < j
          /\ log[i].result = "error"
          /\ log[j].result = "event"

====
